---- MODULE Spec2Model ----
(***************************************************************************)
(* Model of the Loop inventory pass (inventory.js), of the selector        *)
(* cascade helpers (selectors.js), of validateManifest (manifest.js) and   *)
(* of the export pass (exporter.js, toSlug of markdown.js).                *)
(*                                                                         *)
(* Strings are sequences of one-character strings, so that slugs, index    *)
(* suffixes and identifier attributes compare as the JavaScript strings    *)
(* do.  null is the value NULL; the empty string is <<>>.                  *)
(***************************************************************************)
EXTENDS Integers, Sequences, FiniteSets, TLC

VARIABLES
    rin,        \* resolveParents: the page list as it was passed in
    pages,      \* the page list being built / resolved (mutated in place)
    rpc,        \* resolveParents: "idle" | "input" | "resolved"
    ppc,        \* enumeratePages: "idle" | "find" | "capture" | "api" | "returned"
    nItems,     \* enumeratePages: allItems.length
    idx,        \* enumeratePages: the loop index i (0-based)
    workspaces, \* enumerateWorkspaces / apiInterceptWorkspaces: the result list
    wpc,        \* enumerateWorkspaces: "idle" | "find" | "cards" | "api" | "parse" |
                \*   "returned" | "threw"
    wItems,     \* enumerateWorkspaces: items.length
    widx,       \* enumerateWorkspaces: the number of items visited
    dom,        \* cascade: what each selector's lookup gives in the scope
    domChanged, \* cascade: the host UI changed the DOM since the first resolution began
    ckind,      \* cascade: "first" (findFirst) | "all" (findAll)
    clist,      \* cascade: the selector list of the running resolution
    cidx,       \* cascade: position of the running resolution in its list
    cpc,        \* cascade: "idle" | "start" | "loop"
    cres,       \* cascade: the outcomes of the finished resolutions, in order
    mpc,        \* fullyMaterializePageTree: "idle" | "expand" | "count" | "returned" | "threw"
    pass,       \* fullyMaterializePageTree: the pass being run (1-based)
    lastCount,  \* fullyMaterializePageTree: lastCount
    count,      \* fullyMaterializePageTree: count, the items visible at the latest pass
    iterations, \* expandAllNodes: iterations
    sawItems,   \* fullyMaterializePageTree: some pass so far counted at least one item
    reloaded,   \* apiInterceptWorkspaces: the response observer is registered and the reload issued
    warned,     \* apiInterceptWorkspaces: the "could not auto-discover" warning was printed
    ipc,        \* runInventory: "idle" | "start" | "discover" | "navigate" | "expand" |
                \*   "materialize" | "capture" | "returned" | "threw"; "validated"
                \*   once the inventory command has validated the manifest
    wk,         \* runInventory: position of `for (const ws of workspaceData)` (1-based)
    outcomes,   \* runInventory: what the body of the loop did for each workspace so far
    manifest,   \* runInventory: the manifest written and returned, NULL before
    notice,     \* validateManifest: the "0 workspaces" warning was printed
    urlNotice,  \* validateManifest: the "page(s) have no URL" warning was printed
    observers,  \* runInventory: the response observers registered on the page so far
    expected,   \* enumeratePages: what each item visited so far gave, in document order
    din,        \* getItemDepth: the signals the element gives
    dout,       \* getItemDepth: the value returned
    dpc,        \* getItemDepth: "idle" | "input" | "returned"
    xin,        \* exportPageList: the pages list of the workspace being exported
    xfilter,    \* exportPageList: opts.pageFilter
    xidx,       \* exportPageList: the number of entries visited
    xpc,        \* exportPageList: "idle" | "loop" | "returned"
    xbroken,    \* exportSinglePage: the urls whose navigation or extraction raises
    files,      \* exportSinglePage: the files written so far
    visited,    \* exportSinglePage: the urls page.goto was called with
    audit       \* runExport: the audit report

vResolve == <<rin, rpc>>

vEnum == <<ppc, nItems, idx, expected>>

vWs == <<workspaces, wpc, wItems, widx, reloaded, warned>>

vCasc == <<dom, domChanged, ckind, clist, cidx, cpc, cres>>

vMat == <<mpc, pass, lastCount, count, iterations, sawItems>>

vInv == <<ipc, wk, outcomes, manifest, notice, urlNotice, observers>>

vDepth == <<din, dout, dpc>>

vExp == <<xin, xfilter, xbroken, xidx, xpc, files, visited, audit>>

vars == <<rin, pages, rpc, ppc, nItems, idx, workspaces, wpc, wItems, widx,
          dom, domChanged, ckind, clist, cidx, cpc, cres,
          mpc, pass, lastCount, count, iterations, sawItems, reloaded, warned,
          ipc, wk, outcomes, manifest, notice, urlNotice, observers, expected,
          din, dout, dpc, xin, xfilter, xbroken, xidx, xpc, files, visited, audit>>

(***************************************************************************)
(* Bounds of the model.                                                    *)
(***************************************************************************)
MaxPages == 5
MaxDepth == 2
MaxItems == 3
NSel == 3
MaxCount == 3

(***************************************************************************)
(* Values.                                                                 *)
(***************************************************************************)
NULL == <<"NULL">>

Letters == <<"a", "b", "c", "d", "e", "f", "g", "h">>

\* The id of the i-th page of an input whose ids are pairwise distinct.
IdOf(i) == <<Letters[i]>>

Last(s) == s[Len(s)]

Front(s) == SubSeq(s, 1, Len(s) - 1)

(***************************************************************************)
(* resolveParents (inventory.js).                                          *)
(***************************************************************************)

\* A page entry as enumeratePages pushes it: parentId null, children [].
NewPage(id, title, url, depth) ==
    [id |-> id, title |-> title, url |-> url, depth |-> depth,
     parentId |-> NULL, children |-> <<>>]

\* while (stack.length && stack[stack.length - 1].depth >= page.depth) stack.pop()
RECURSIVE PopStackStrict(_, _)
PopStackStrict(stack, depth) ==
    IF stack # <<>> /\ Last(stack).depth > depth
    THEN PopStackStrict(Front(stack), depth)
    ELSE stack

RECURSIVE PopStack(_, _)
PopStack(stack, depth) ==
    IF stack # <<>> /\ Last(stack).depth >= depth
    THEN PopStack(Front(stack), depth)
    ELSE stack

\* pages.find((p) => p.id === id): the index of the first page with that id,
\* 0 when there is none.
FindPage(ps, id) ==
    IF \E k \in 1..Len(ps) : ps[k].id = id
    THEN CHOOSE k \in 1..Len(ps) :
             /\ ps[k].id = id
             /\ \A j \in 1..(k - 1) : ps[j].id # id
    ELSE 0

\* parent.children.push(page.id)
PushChildFront(children, id) == <<id>> \o children

PushChild(children, id) == Append(children, id)

\* if (stack.length) { page.parentId = top.id; parent.children.push(page.id) }
LinkToOutermost(ps, i, stack) ==
    IF stack = <<>> THEN ps
    ELSE LET pid == stack[1].id
             ps1 == [ps EXCEPT ![i].parentId = pid]
             k   == FindPage(ps1, pid)
         IN  IF k = 0 THEN ps1
             ELSE [ps1 EXCEPT ![k].children = Append(@, ps1[i].id)]

\* the same, with the depth renormalised to the number of ancestors
LinkAndRenormalize(ps, i, stack) ==
    IF stack = <<>> THEN [ps EXCEPT ![i].depth = 0]
    ELSE LET pid == Last(stack).id
             ps1 == [ps EXCEPT ![i].parentId = pid, ![i].depth = Len(stack)]
             k   == FindPage(ps1, pid)
         IN  IF k = 0 THEN ps1
             ELSE [ps1 EXCEPT ![k].children = Append(@, ps1[i].id)]

LinkToParent(ps, i, stack) ==
    IF stack = <<>> THEN ps
    ELSE LET pid == Last(stack).id
             ps1 == [ps EXCEPT ![i].parentId = pid]
             k   == FindPage(ps1, pid)
         IN  IF k = 0 THEN ps1
             ELSE [ps1 EXCEPT ![k].children = PushChild(@, ps1[i].id)]

\* One iteration of `for (const page of pages)`.
ResolveOne(st, i) ==
    LET page   == st.pages[i]
        stack1 == PopStack(st.stack, page.depth)
    IN  [pages |-> LinkToParent(st.pages, i, stack1),
         stack |-> Append(stack1, [depth |-> page.depth, id |-> page.id])]

RECURSIVE ResolveFrom(_, _)
ResolveFrom(st, i) ==
    IF i > Len(st.pages) THEN st.pages
    ELSE ResolveFrom(ResolveOne(st, i), i + 1)

resolveParents(ps) == ResolveFrom([pages |-> ps, stack |-> <<>>], 1)

(***************************************************************************)
(* Specification SpecResolve: resolveParents on every list of at most      *)
(* MaxPages pages with pairwise distinct ids and depths in 0..MaxDepth.    *)
(***************************************************************************)
DepthSeqs == UNION {[1..n -> 0..MaxDepth] : n \in 0..MaxPages}

InputOf(ds) == [i \in 1..Len(ds) |-> NewPage(IdOf(i), IdOf(i), NULL, ds[i])]

IdleResolve == rin = <<>> /\ rpc = "idle"

IdleEnum == ppc = "idle" /\ nItems = 0 /\ idx = 0 /\ expected = <<>>

IdleWs ==
    /\ workspaces = <<>>
    /\ wpc = "idle"
    /\ wItems = 0
    /\ widx = 0
    /\ reloaded = FALSE
    /\ warned = FALSE

IdleCasc ==
    /\ dom = <<>>
    /\ domChanged = FALSE
    /\ ckind = "all"
    /\ clist = <<>>
    /\ cidx = 0
    /\ cpc = "idle"
    /\ cres = <<>>

IdleMat ==
    /\ mpc = "idle"
    /\ pass = 0
    /\ lastCount = -1
    /\ count = 0
    /\ iterations = 0
    /\ sawItems = FALSE

IdleInv ==
    /\ ipc = "idle"
    /\ wk = 0
    /\ outcomes = <<>>
    /\ manifest = NULL
    /\ notice = FALSE
    /\ urlNotice = FALSE
    /\ observers = 0

IdleDepth == din = NULL /\ dout = NULL /\ dpc = "idle"

IdleExp ==
    /\ xin = <<>>
    /\ xfilter = NULL
    /\ xbroken = {}
    /\ xidx = 0
    /\ xpc = "idle"
    /\ files = {}
    /\ visited = {}
    /\ audit = [exported |-> <<>>, failed |-> <<>>, skipped |-> <<>>]

InitResolve ==
    /\ \E ds \in DepthSeqs : rin = InputOf(ds)
    /\ pages = rin
    /\ rpc = "input"
    /\ IdleEnum
    /\ IdleWs
    /\ IdleCasc
    /\ IdleMat
    /\ IdleInv
    /\ IdleDepth
    /\ IdleExp

Resolve ==
    /\ rpc = "input"
    /\ pages' = resolveParents(pages)
    /\ rpc' = "resolved"
    /\ UNCHANGED <<rin, vEnum, vWs, vCasc, vMat, vInv,
                   vDepth, vExp>>

NextResolve == Resolve

SpecResolve == InitResolve /\ [][NextResolve]_vars

(***************************************************************************)
(* Strings: slugifyTitle and the index suffix (inventory.js).              *)
(***************************************************************************)
Digits == <<"0", "1", "2", "3", "4", "5", "6", "7", "8", "9">>

LowerAlnum == {"a", "b", "w", "x", "y", "0", "1", "2", "3", "4", "5", "6", "7", "8", "9"}

\* String.prototype.toLowerCase, on one character of the model's alphabet
LowerChar(c) ==
    CASE c = "A" -> "a"
      [] c = "B" -> "b"
      [] OTHER   -> c

ToLower(s) == [i \in 1..Len(s) |-> LowerChar(s[i])]

\* .replace(/[^a-z0-9]+/g, '-'): every maximal run of other characters
\* becomes one dash
RECURSIVE DashRuns(_)
DashRuns(s) ==
    IF s = <<>> THEN <<>>
    ELSE IF Head(s) \in LowerAlnum THEN <<Head(s)>> \o DashRuns(Tail(s))
    ELSE IF Len(s) > 1 /\ s[2] \notin LowerAlnum THEN DashRuns(Tail(s))
    ELSE <<"-">> \o DashRuns(Tail(s))

\* .replace(/^-|-$/g, ''): one leading and one trailing dash are removed
TrimDashes(s) ==
    LET t == IF s # <<>> /\ Head(s) = "-" THEN Tail(s) ELSE s
    IN  IF t # <<>> /\ Last(t) = "-" THEN Front(t) ELSE t

SlugMaxLen == 40

\* .slice(0, n)
Slice(s, n) == IF Len(s) <= n THEN s ELSE SubSeq(s, 1, n)

Falsy(s) == s = NULL \/ s = <<>>

Untitled == <<"u", "n", "t", "i", "t", "l", "e", "d">>

slugifyTitle(title) ==
    IF Falsy(title) THEN Untitled
    ELSE Slice(TrimDashes(DashRuns(ToLower(title))), SlugMaxLen)

\* '' + n for a non-negative integer
RECURSIVE NumStr(_)
NumStr(n) ==
    IF n < 10 THEN <<Digits[n + 1]>>
    ELSE NumStr(n \div 10) \o <<Digits[(n % 10) + 1]>>

\* a || b
Or(a, b) == IF Falsy(a) THEN b ELSE a

\* slugifyTitle(title) + '_' + n
SlugId(title, n) == slugifyTitle(title) \o <<"_">> \o NumStr(n)

(***************************************************************************)
(* enumeratePages (inventory.js), from the collection of the page items    *)
(* on.  What the DOM and the network give is chosen when it is read.       *)
(***************************************************************************)
WsTitle == <<"w">>

\* elementLabel(item): null, or a trimmed non-empty label
ItemLabels == {NULL, WsTitle, <<"a">>}

\* safeAttr(item, 'data-page-id'), safeAttr(item, 'data-id')
PageIdAttrs == {NULL, <<"x">>}

DataIdAttrs == {NULL, <<>>, <<"a", "_", "1">>}

PageUrl == <<"u">>

\* the url kept for an item: from its href, else from the click, else null
ItemUrls == {NULL, PageUrl}

\* safeAttr(item, 'data-page-id') || safeAttr(item, 'data-id') ||
\* slugifyTitle(title) + '_' + i
PageId(a1, a2, title, i) == Or(Or(a1, a2), SlugId(title, i))

InitPages ==
    /\ pages = <<>>
    /\ ppc = "find"
    /\ nItems = 0
    /\ idx = 0
    /\ expected = <<>>
    /\ IdleResolve
    /\ IdleWs
    /\ IdleCasc
    /\ IdleMat
    /\ IdleInv
    /\ IdleDepth
    /\ IdleExp

\* const allItems = await findAll(..., PAGE_ITEM_SELECTORS)
FindItems ==
    /\ ppc = "find"
    /\ \E n \in 0..MaxItems :
          /\ nItems' = n
          /\ ppc' = IF n = 0 THEN "api" ELSE "capture"
    /\ UNCHANGED <<pages, idx, expected, vResolve, vWs, vCasc, vMat, vInv,
                   vDepth, vExp>>

\* What item i gave: a failure, or its label and, when the label is kept,
\* the entry pushed
ItemRead(threw, title, entry) ==
    [failed |-> threw,
     title |-> IF threw THEN NULL ELSE title,
     page |-> IF threw \/ Falsy(title) \/ title = WsTitle THEN NULL ELSE entry]

\* A mutant of AfterItem: an item that fails ends the loop.
AfterItemAbort(i, n, threw) == IF threw THEN n ELSE i + 1

\* for (...; i++) with the try/catch inside the loop: the next item is i + 1
\* whether the body ended, continued or was caught
AfterItem(i, n, threw) == i + 1

\* One iteration of the capture loop: the item is skipped (no label, the
\* workspace's own label, or an exception caught by the loop's try) or pushed.
CapturePage ==
    /\ ppc = "capture"
    /\ idx < nItems
    /\ \E title \in ItemLabels, a1 \in PageIdAttrs, a2 \in DataIdAttrs,
          d \in 0..MaxDepth, url \in ItemUrls, throws \in BOOLEAN :
          LET entry == NewPage(PageId(a1, a2, title, idx), title, url, d)
          IN  /\ pages' = IF Falsy(title) \/ title = WsTitle \/ throws
                          THEN pages
                          ELSE Append(pages, entry)
              /\ expected' = Append(expected, ItemRead(throws, title, entry))
              /\ idx' = AfterItem(idx, nItems, throws)
    /\ UNCHANGED <<ppc, nItems, vResolve, vWs, vCasc, vMat, vInv,
                   vDepth, vExp>>

\* resolveParents(pages); return pages
ResolvePages ==
    /\ ppc = "capture"
    /\ idx = nItems
    /\ pages' = resolveParents(pages)
    /\ ppc' = "returned"
    /\ UNCHANGED <<nItems, idx, expected, vResolve, vWs, vCasc, vMat, vInv,
                   vDepth, vExp>>

\* item.displayName || item.name || item.title || null
ApiTitles == {NULL, <<"a">>, <<"A">>, <<"!">>}

\* item.id
ApiIds == {NULL, <<"x">>}

\* apiInterceptPages: one item of a captured response body
ApiPage ==
    /\ ppc = "api"
    /\ Len(pages) < MaxItems
    /\ \E title \in ApiTitles, id \in ApiIds, url \in ItemUrls :
          pages' = IF Falsy(title) THEN pages
                   ELSE Append(pages, NewPage(Or(id, slugifyTitle(title)),
                                              title, url, 0))
    /\ UNCHANGED <<vEnum, vResolve, vWs, vCasc, vMat, vInv,
                   vDepth, vExp>>

\* apiInterceptPages: return pages
ApiPagesReturn ==
    /\ ppc = "api"
    /\ ppc' = "returned"
    /\ UNCHANGED <<pages, nItems, idx, expected, vResolve, vWs, vCasc, vMat, vInv,
                   vDepth, vExp>>

NextPages ==
    \/ FindItems
    \/ CapturePage
    \/ ResolvePages
    \/ ApiPage
    \/ ApiPagesReturn

SpecPages == InitPages /\ [][NextPages]_vars

(***************************************************************************)
(* enumerateWorkspaces and apiInterceptWorkspaces (inventory.js).          *)
(***************************************************************************)
\* elementLabel(card): null, or a trimmed non-empty label
CardLabels == {NULL, <<"a">>, <<"A">>, <<"b">>}

\* safeAttr(card, 'data-workspace-id'), safeAttr(card, 'data-id')
WsIdAttrs == {NULL, <<"x">>}

WsDataIdAttrs == {NULL, <<>>, <<"a", "_", "1">>}

\* item.driveId
ApiDriveIds == {NULL, <<"y">>}

NewWorkspace(id, title, url) ==
    [id |-> id, title |-> title, url |-> url, pages |-> <<>>]

\* seenTitles: every pushed title is added, nothing else is
SeenTitles(ws) == {ws[k].title : k \in 1..Len(ws)}

\* item.id || item.driveId || slugifyTitle(title)
ApiWsId(id, driveId, title) == Or(Or(id, driveId), slugifyTitle(title))

\* safeAttr(item, 'data-workspace-id') || safeAttr(item, 'data-id') ||
\* slugifyTitle(title) + '_' + workspaces.length
WsId(a1, a2, title, n) == Or(Or(a1, a2), SlugId(title, n))

InitWs ==
    /\ workspaces = <<>>
    /\ wpc = "find"
    /\ wItems = 0
    /\ widx = 0
    /\ reloaded = FALSE
    /\ warned = FALSE
    /\ pages = <<>>
    /\ IdleResolve
    /\ IdleEnum
    /\ IdleCasc
    /\ IdleMat
    /\ IdleInv
    /\ IdleDepth
    /\ IdleExp

\* galleryEl = findFirst(...); items = galleryEl ? findAll(galleryEl, ...) : [];
\* if (!items.length) return await apiInterceptWorkspaces(page, verbose)
FindCards ==
    /\ wpc = "find"
    /\ \E n \in 0..MaxItems :
          /\ wItems' = n
          /\ wpc' = IF n = 0 THEN "api" ELSE "cards"
    /\ UNCHANGED <<workspaces, widx, reloaded, warned, pages, vResolve, vEnum, vCasc, vMat, vInv,
                   vDepth, vExp>>

\* One iteration of `for (const item of items)`.
CaptureCard ==
    /\ wpc = "cards"
    /\ widx < wItems
    /\ \E title \in CardLabels, a1 \in WsIdAttrs, a2 \in WsDataIdAttrs,
          url \in ItemUrls :
          workspaces' =
              IF Falsy(title) \/ title \in SeenTitles(workspaces)
              THEN workspaces
              ELSE Append(workspaces,
                          NewWorkspace(WsId(a1, a2, title, Len(workspaces)),
                                       title, url))
    /\ widx' = widx + 1
    /\ UNCHANGED <<wpc, wItems, reloaded, warned, pages, vResolve, vEnum, vCasc, vMat, vInv,
                   vDepth, vExp>>

\* return workspaces
CardsReturn ==
    /\ wpc = "cards"
    /\ widx = wItems
    /\ wpc' = "returned"
    /\ UNCHANGED <<workspaces, wItems, widx, reloaded, warned, pages, vResolve, vEnum, vCasc, vMat, vInv,
                   vDepth, vExp>>

\* apiInterceptWorkspaces: page.on('response', ...) registers the observer,
\* then page.reload(...) is awaited; it raises on a timeout or a closed page
\* and nothing catches that
ApiReload ==
    /\ wpc = "api"
    /\ reloaded' = TRUE
    /\ \E raised \in BOOLEAN : wpc' = IF raised THEN "threw" ELSE "parse"
    /\ UNCHANGED <<workspaces, wItems, widx, warned, pages, vResolve, vEnum, vCasc, vMat, vInv,
                   vDepth, vExp>>

\* apiInterceptWorkspaces: one item of a captured response body
ApiWorkspace ==
    /\ wpc = "parse"
    /\ Len(workspaces) < MaxItems
    /\ \E title \in ApiTitles, id \in ApiIds, driveId \in ApiDriveIds,
          url \in ItemUrls :
          workspaces' =
              IF Falsy(title) THEN workspaces
              ELSE Append(workspaces,
                          NewWorkspace(ApiWsId(id, driveId, title), title, url))
    /\ UNCHANGED <<wpc, wItems, widx, reloaded, warned, pages, vResolve, vEnum, vCasc, vMat, vInv,
                   vDepth, vExp>>

\* if (!workspaces.length) console.warn(...)
WarnsNever(ws) == FALSE

WarnsWhen(ws) == Len(ws) = 0

\* apiInterceptWorkspaces: the warning of an empty result, return workspaces
ApiWorkspacesReturn ==
    /\ wpc = "parse"
    /\ warned' = WarnsWhen(workspaces)
    /\ wpc' = "returned"
    /\ UNCHANGED <<workspaces, wItems, widx, reloaded, pages, vResolve, vEnum, vCasc, vMat, vInv,
                   vDepth, vExp>>

NextWs ==
    \/ FindCards
    \/ CaptureCard
    \/ CardsReturn
    \/ ApiReload
    \/ ApiWorkspace
    \/ ApiWorkspacesReturn

SpecWs == InitWs /\ [][NextWs]_vars

(***************************************************************************)
(* The selector cascade: findFirst and findAll (selectors.js).             *)
(*                                                                         *)
(* A selector list is <<1, ..., n>>: the selectors are named by their rank *)
(* in the list.  dom[s] is what a lookup of selector s gives in the scope: *)
(* it raises (a stale scope, a closed page), or it yields the matching     *)
(* elements in document order.  The host UI may change the DOM between     *)
(* two lookups, each of which is awaited.                                  *)
(***************************************************************************)
Raises == [raises |-> TRUE, els |-> <<>>]

Matches(els) == [raises |-> FALSE, els |-> els]

Outcomes ==
    {Raises, Matches(<<>>), Matches(<<"e1">>), Matches(<<"e2">>),
     Matches(<<"e1", "e2">>)}

Doms == [1..NSel -> Outcomes]

FullList == [i \in 1..NSel |-> i]

\* for (const sel of selectors): the selector tried at the i-th iteration
SelectorAtReversed(list, i) == list[Len(list) + 1 - i]

SelectorAt(list, i) == list[i]

\* for (const sel of selectors): the position the loop starts at
FirstIndexCached(res) ==
    IF res # <<>> /\ Last(res).from > 0 THEN Last(res).from + 1 ELSE 1

FirstIndex(res) == 1

\* catch { /* try next */ }: what a raising lookup does to the resolver
OnRaisePropagate == "throw"

OnRaise == "next"

\* findAll: `return els`
AllOfFrom(d, list, i) ==
    IF i < Len(list) /\ ~d[SelectorAt(list, i + 1)].raises
    THEN LET more == d[SelectorAt(list, i + 1)].els
             mine == d[SelectorAt(list, i)].els
         IN  mine \o SelectSeq(more, LAMBDA e : \A k \in 1..Len(mine) : mine[k] # e)
    ELSE d[SelectorAt(list, i)].els

AllOf(d, list, i) == d[SelectorAt(list, i)].els

\* findFirst: page.waitForSelector(sel, {timeout, state: 'attached'}) gives the
\* first matching element, and raises (a timeout) when nothing matches
WaitForSelector(d, sel) ==
    IF d[sel].raises \/ d[sel].els = <<>> THEN Raises
    ELSE Matches(<<Head(d[sel].els)>>)

\* findAll: root.$$(sel)
QueryAll(d, sel) == d[sel]

Returned(list, value, from) ==
    [list |-> list, value |-> value, from |-> from, threw |-> FALSE]

Threw(list) == [list |-> list, value |-> "none", from |-> 0, threw |-> TRUE]

InitCascade ==
    /\ dom \in Doms
    /\ domChanged = FALSE
    /\ ckind \in {"first", "all"}
    /\ clist = <<>>
    /\ cidx = 0
    /\ cpc = "start"
    /\ cres = <<>>
    /\ pages = <<>>
    /\ IdleResolve
    /\ IdleEnum
    /\ IdleWs
    /\ IdleMat
    /\ IdleInv
    /\ IdleDepth
    /\ IdleExp

\* A call of findFirst / findAll.  The first call is given the whole list, the
\* second one the same list again or its first selector alone.
StartResolve ==
    /\ cpc = "start"
    /\ Len(cres) < 2
    /\ \E list \in {FullList, <<1>>} :
          /\ cres = <<>> => list = FullList
          /\ clist' = list
    /\ cidx' = FirstIndex(cres)
    /\ cpc' = "loop"
    /\ UNCHANGED <<dom, domChanged, ckind, cres, pages, vResolve, vEnum, vWs, vMat, vInv,
                   vDepth, vExp>>

\* What one iteration of the loop leads to: "next" selector, or the call's end.
LookupStep(kind, d, list, i) ==
    LET sel == SelectorAt(list, i)
        out == IF kind = "first" THEN WaitForSelector(d, sel) ELSE QueryAll(d, sel)
    IN  IF out.raises
        THEN IF OnRaise = "next" THEN [end |-> FALSE] ELSE [end |-> TRUE, res |-> Threw(list)]
        ELSE IF out.els = <<>> THEN [end |-> FALSE]
        ELSE [end |-> TRUE,
              res |-> Returned(list,
                               IF kind = "first" THEN out.els[1] ELSE AllOf(d, list, i),
                               i)]

\* One iteration of `for (const sel of selectors)`: the awaited lookup.
Lookup ==
    /\ cpc = "loop"
    /\ cidx <= Len(clist)
    /\ LET step == LookupStep(ckind, dom, clist, cidx)
       IN  IF step.end
           THEN /\ cres' = Append(cres, step.res)
                /\ cpc' = "start"
                /\ cidx' = 0
                /\ clist' = <<>>
           ELSE /\ cidx' = cidx + 1
                /\ UNCHANGED <<cres, cpc, clist>>
    /\ UNCHANGED <<dom, domChanged, ckind, pages, vResolve, vEnum, vWs, vMat, vInv,
                   vDepth, vExp>>

\* return null (findFirst) / return [] (findAll)
NotFound ==
    /\ cpc = "loop"
    /\ cidx > Len(clist)
    /\ cres' = Append(cres, Returned(clist, IF ckind = "first" THEN "null" ELSE <<>>, 0))
    /\ cpc' = "start"
    /\ cidx' = 0
    /\ clist' = <<>>
    /\ UNCHANGED <<dom, domChanged, ckind, pages, vResolve, vEnum, vWs, vMat, vInv,
                   vDepth, vExp>>

\* The host UI re-renders while a lookup is awaited or between two calls:
\* what one selector gives changes (several changes may follow one another).
DomChange ==
    /\ cpc \in {"start", "loop"}
    /\ Len(cres) < 2
    /\ \E s \in 1..NSel, o \in Outcomes :
          /\ o # dom[s]
          /\ dom' = [dom EXCEPT ![s] = o]
    /\ domChanged' = TRUE
    /\ UNCHANGED <<ckind, clist, cidx, cpc, cres, pages, vResolve, vEnum, vWs, vMat, vInv,
                   vDepth, vExp>>

NextCascade ==
    \/ StartResolve
    \/ Lookup
    \/ NotFound
    \/ DomChange

SpecCascade == InitCascade /\ [][NextCascade]_vars

(***************************************************************************)
(* fullyMaterializePageTree and expandAllNodes (inventory.js).             *)
(*                                                                         *)
(* The host UI decides what each query shows: how many collapsed nodes an  *)
(* expansion iteration finds, whether a click or a scroll works, how many  *)
(* page items are visible after a pass.  Clicks and scrolls are inside     *)
(* try/catch and change nothing the loops read; the first query of an      *)
(* expansion iteration is not, and a raise there leaves both functions.    *)
(***************************************************************************)
maxPasses == 12

maxIterations == 20

\* for (let pass = 1; pass <= maxPasses; pass++): no pass follows pass p
LastPassOffByOne(p) == p > maxPasses

LastPass(p) == p >= maxPasses

\* while (iterations < maxIterations)
MoreIterations(n) == n < maxIterations

\* if (count > 0 && count === lastCount) break
ConvergedAnyCount(n, last) == n = last

Converged(n, last) == n > 0 /\ n = last

\* The for loop ends after the last pass and the function returns undefined.
OnExhaustedFail == "threw"

OnExhausted == "returned"

\* What an expansion iteration finds:
\*   "raise"     root.$$('[role="treeitem"][aria-expanded="false"]') raises
\*   "treeitems" collapsed tree items, each clicked (or the click fails)
\*   "buttons"   no collapsed tree item, collapsed expand buttons (fallback)
\*   "none"      nothing collapsed: break
ExpandFindings == {"raise", "treeitems", "buttons", "none"}

InitMat ==
    /\ mpc = "expand"
    /\ pass = 1
    /\ lastCount = -1
    /\ count = 0
    /\ iterations = 0
    /\ sawItems = FALSE
    /\ pages = <<>>
    /\ IdleResolve
    /\ IdleEnum
    /\ IdleWs
    /\ IdleCasc
    /\ IdleInv
    /\ IdleDepth
    /\ IdleExp

\* expandAllNodes: one iteration of the while loop
ExpandIteration ==
    /\ mpc = "expand"
    /\ MoreIterations(iterations)
    /\ \E found \in ExpandFindings :
          CASE found = "raise" ->
                   mpc' = "threw" /\ UNCHANGED iterations
            [] found = "none" ->
                   mpc' = "count" /\ UNCHANGED iterations
            [] OTHER ->
                   iterations' = iterations + 1 /\ UNCHANGED mpc
    /\ UNCHANGED <<pass, lastCount, count, sawItems, pages, vResolve, vEnum, vWs, vCasc, vInv,
                   vDepth, vExp>>

\* expandAllNodes: the while condition fails after maxIterations iterations
ExpandExhausted ==
    /\ mpc = "expand"
    /\ ~MoreIterations(iterations)
    /\ mpc' = "count"
    /\ UNCHANGED <<pass, lastCount, count, iterations, sawItems, pages, vResolve, vEnum, vWs, vCasc, vInv,
                   vDepth, vExp>>

\* fullyMaterializePageTree: the rest of a pass after expandAllNodes: count
\* the visible items, stop when converged, else scroll and go to the next
\* pass (which begins with a new call of expandAllNodes)
CountItems ==
    /\ mpc = "count"
    /\ \E n \in 0..MaxCount :
          /\ count' = n
          /\ sawItems' = (sawItems \/ n > 0)
          /\ IF Converged(n, lastCount)
             THEN /\ mpc' = "returned"
                  /\ UNCHANGED <<pass, lastCount, iterations>>
             ELSE /\ lastCount' = n
                  /\ IF LastPass(pass)
                     THEN mpc' = OnExhausted /\ UNCHANGED <<pass, iterations>>
                     ELSE mpc' = "expand" /\ pass' = pass + 1 /\ iterations' = 0
    /\ UNCHANGED <<pages, vResolve, vEnum, vWs, vCasc, vInv,
                   vDepth, vExp>>

NextMat ==
    \/ ExpandIteration
    \/ ExpandExhausted
    \/ CountItems

SpecMat == InitMat /\ [][NextMat]_vars

\* Every awaited driver call and timer completes, so a loop that can take a
\* step takes one.
SpecMatFair == SpecMat /\ WF_vars(NextMat)

(***************************************************************************)
(* runInventory (inventory.js).                                            *)
(*                                                                         *)
(* workspaceData is the list enumerateWorkspaces returned; the loop        *)
(* assigns ws.pages and ws.error in place, so `workspaces` is that list.   *)
(* The discovery and the capture of the page items are one step each here  *)
(* (their own steps are the specifications SpecWs and SpecPages), and so   *)
(* is each call of expandAllNodes (its iterations are steps of SpecMat);   *)
(* the materialization passes run one after the other.  The driver decides *)
(* whether a navigation, a reload or a click works.  The output directory  *)
(* is taken to be writable.                                                *)
(***************************************************************************)
MaxWs == 2
MaxWsPages == 2

\* err.message of an error raised by the driver (a timeout, a closed page)
DriverMessage == <<"T">>

\* `Could not open workspace "${ws.title}" - no URL and gallery card click failed`
CardClickMessage(title) == <<"C">> \o title

\* countPages(pages): pages is always an array here
countPages(ps) == Len(ps)

RECURSIVE SumPages(_, _)
\* workspaceData.reduce((n, ws) => n + countPages(ws.pages), 0), the first k entries
SumPages(ws, k) ==
    IF k = 0 THEN 0 ELSE SumPages(ws, k - 1) + countPages(ws[k].pages)

\* totalPages counts the pages of the last workspace only
TotalPagesOfLast(ws) == IF Len(ws) = 0 THEN 0 ELSE countPages(ws[Len(ws)].pages)

TotalPages(ws) == SumPages(ws, Len(ws))

\* const manifest = { ..., totalWorkspaces, totalPages, workspaces }
NewManifest(ws) ==
    [totalWorkspaces |-> Len(ws), totalPages |-> TotalPages(ws), workspaces |-> ws]

HasError(ws) == "error" \in DOMAIN ws

\* catch (err) { ws.pages = []; ws.error = err.message; }
WithError(ws, msg) == ("error" :> msg) @@ [ws EXCEPT !.pages = <<>>]

\* ws.pages = await enumeratePages(page, ws, verbose)
WithPages(ws, ps) == [ws EXCEPT !.pages = ps]

\* `for (const ws of workspaceData)`: the workspace after the k-th; after a
\* failure of the k-th the loop goes on the same way
AfterFailureStop(k, n) == n + 1

AfterFailure(k, n) == k + 1

AfterPages(k) == k + 1

\* enumeratePages collects the page items once fullyMaterializePageTree has returned
MaterializeDoneEarly(m) == m \in {"returned", "count"}

MaterializeDone(m) == m = "returned"

\* The workspaces enumerateWorkspaces can return: n entries with distinct
\* non-empty titles, each with a url or none.
DiscoveredLists ==
    UNION {{[k \in 1..n |-> NewWorkspace(WsId(NULL, NULL, IdOf(k), k - 1), IdOf(k), urls[k])]
              : urls \in [1..n -> {NULL, PageUrl}]} : n \in 0..MaxWs}

\* The page lists enumeratePages can return: from the DOM (resolved), from the network
DomPages(k) == resolveParents(InputOf([i \in 1..k |-> IF i = 1 THEN 0 ELSE 1]))

ApiPages(k) == InputOf([i \in 1..k |-> 0])

IdleMatVars ==
    /\ mpc' = "idle"
    /\ pass' = 0
    /\ lastCount' = -1
    /\ count' = 0
    /\ iterations' = 0
    /\ sawItems' = FALSE

InitInv ==
    /\ ipc = "start"
    /\ wk = 0
    /\ outcomes = <<>>
    /\ manifest = NULL
    /\ notice = FALSE
    /\ urlNotice = FALSE
    /\ observers = 0
    /\ pages = <<>>
    /\ IdleResolve
    /\ IdleEnum
    /\ IdleWs
    /\ IdleCasc
    /\ IdleMat
    /\ IdleDepth
    /\ IdleExp

\* if (!page.url().includes(...)) await page.goto(LOOP_URL, ...): not in any
\* try/catch, so a navigation that raises leaves runInventory
StartInventory ==
    /\ ipc = "start"
    /\ \E onLoop \in BOOLEAN, raised \in BOOLEAN :
          ipc' = IF ~onLoop /\ raised THEN "threw" ELSE "discover"
    /\ UNCHANGED <<wk, outcomes, manifest, notice, urlNotice, observers, pages, vResolve, vEnum, vWs, vCasc, vMat,
                   vDepth, vExp>>

\* const workspaceData = await enumerateWorkspaces(page, verbose): the gallery
\* cards when there is at least one card, else apiInterceptWorkspaces, which
\* registers the observer (nothing removes it), reloads (the reload may
\* raise) and warns when it has nothing to return
DiscoverWorkspaces ==
    /\ ipc = "discover"
    /\ \E list \in DiscoveredLists, cards \in BOOLEAN, raised \in BOOLEAN :
          IF cards
          THEN /\ workspaces' = list
               /\ ipc' = "navigate"
               /\ wk' = 1
               /\ UNCHANGED <<reloaded, warned, observers>>
          ELSE /\ reloaded' = TRUE
               /\ observers' = observers + 1
               /\ IF raised
                  THEN /\ ipc' = "threw"
                       /\ UNCHANGED <<workspaces, warned, wk>>
                  ELSE /\ workspaces' = list
                       /\ warned' = WarnsWhen(list)
                       /\ ipc' = "navigate"
                       /\ wk' = 1
    /\ UNCHANGED <<wpc, wItems, widx, outcomes, manifest, notice, urlNotice, pages,
                   vResolve, vEnum, vCasc, vMat,
                   vDepth, vExp>>

\* The catch of the loop body: the workspace gets pages = [] and the message
RecordError(msg) ==
    /\ workspaces' = [workspaces EXCEPT ![wk] = WithError(@, msg)]
    /\ outcomes' = Append(outcomes, [failed |-> TRUE, pages |-> <<>>])
    /\ wk' = AfterFailure(wk, Len(workspaces))
    /\ ipc' = "navigate"
    /\ IdleMatVars

\* ws.pages = await enumeratePages(...), the end of the loop body
AssignPages(ps) ==
    /\ workspaces' = [workspaces EXCEPT ![wk] = WithPages(@, ps)]
    /\ outcomes' = Append(outcomes, [failed |-> FALSE, pages |-> ps])
    /\ wk' = AfterPages(wk)
    /\ ipc' = "navigate"
    /\ IdleMatVars

\* navigateToWorkspace(page, ws): goto when the workspace has a url, else a
\* click on its gallery card; then getExpandableSidebarRoot (a findFirst) and
\* the call of expandAllNodes begins
Navigate ==
    /\ ipc = "navigate"
    /\ wk <= Len(workspaces)
    /\ \E worked \in BOOLEAN :
          IF worked
          THEN /\ ipc' = "expand"
               /\ UNCHANGED <<workspaces, wk, outcomes, vMat>>
          ELSE RecordError(IF workspaces[wk].url # NULL
                           THEN DriverMessage
                           ELSE CardClickMessage(workspaces[wk].title))
    /\ UNCHANGED <<wpc, wItems, widx, reloaded, warned, manifest, notice, urlNotice, observers, pages,
                   vResolve, vEnum, vCasc,
                   vDepth, vExp>>

\* expandAllNodes as called by enumeratePages before the materialization:
\* it returns, or the first query of one of its iterations raises; then
\* fullyMaterializePageTree begins
ExpandFirst ==
    /\ ipc = "expand"
    /\ \E raised \in BOOLEAN :
          IF raised
          THEN RecordError(DriverMessage)
          ELSE /\ ipc' = "materialize"
               /\ mpc' = "expand"
               /\ pass' = 1
               /\ UNCHANGED <<workspaces, wk, outcomes, lastCount, count,
                              iterations, sawItems>>
    /\ UNCHANGED <<wpc, wItems, widx, reloaded, warned, manifest, notice, urlNotice, observers, pages,
                   vResolve, vEnum, vCasc,
                   vDepth, vExp>>

\* expandAllNodes as called by a pass of fullyMaterializePageTree: it
\* returns, or the first query of one of its iterations raises
ExpandInPass ==
    /\ ipc = "materialize"
    /\ mpc = "expand"
    /\ \E raised \in BOOLEAN : mpc' = IF raised THEN "threw" ELSE "count"
    /\ UNCHANGED <<pass, lastCount, count, iterations, sawItems, pages,
                   vResolve, vEnum, vWs, vCasc, vInv,
                   vDepth, vExp>>

\* fullyMaterializePageTree raised (the first query of an expansion iteration):
\* the catch of the loop body
MaterializeThrew ==
    /\ ipc = "materialize"
    /\ mpc = "threw"
    /\ RecordError(DriverMessage)
    /\ UNCHANGED <<wpc, wItems, widx, reloaded, warned, manifest, notice, urlNotice, observers, pages,
                   vResolve, vEnum, vCasc,
                   vDepth, vExp>>

\* fullyMaterializePageTree returned: enumeratePages goes on to findAll
MaterializeReturned ==
    /\ ipc = "materialize"
    /\ MaterializeDone(mpc)
    /\ ipc' = "capture"
    /\ UNCHANGED <<wk, outcomes, manifest, notice, urlNotice, observers, pages, vResolve, vEnum, vWs, vCasc, vMat,
                   vDepth, vExp>>

\* The rest of enumeratePages: the page items visible now are captured and
\* resolved; with no item, apiInterceptPages (a goto when the workspace has a
\* url, which may raise, then page.on('response', ...), which nothing
\* removes, then what the network gave)
CapturePages ==
    /\ ipc = "capture"
    /\ \E n \in 0..MaxWsPages, k \in 0..MaxWsPages, raised \in BOOLEAN :
          IF n > 0
          THEN k <= n /\ AssignPages(DomPages(k)) /\ UNCHANGED observers
          ELSE IF workspaces[wk].url # NULL /\ raised
               THEN RecordError(DriverMessage) /\ UNCHANGED observers
               ELSE AssignPages(ApiPages(k)) /\ observers' = observers + 1
    /\ UNCHANGED <<wpc, wItems, widx, reloaded, warned, manifest, notice, urlNotice, pages,
                   vResolve, vEnum, vCasc,
                   vDepth, vExp>>

\* After the loop: the manifest is built, written and returned
WriteManifest ==
    /\ ipc = "navigate"
    /\ wk > Len(workspaces)
    /\ manifest' = NewManifest(workspaces)
    /\ ipc' = "returned"
    /\ UNCHANGED <<wk, outcomes, notice, urlNotice, observers, pages, vResolve, vEnum, vWs, vCasc, vMat,
                   vDepth, vExp>>

\* if (manifest.workspaces.length === 0) console.warn(...)
ManifestEmpty(m) == Len(m.workspaces) = 0

\* manifest.workspaces.flatMap(ws => ws.pages || []).filter(p => !p.url), as
\* the positions <<workspace, page>> of the pages kept
PagesWithoutUrl(m) ==
    UNION {{<<k, j>> : j \in {i \in 1..Len(m.workspaces[k].pages) :
                                 Falsy(m.workspaces[k].pages[i].url)}} :
           k \in 1..Len(m.workspaces)}

\* The inventory command (cli.js): validateManifest(manifest) after
\* runInventory has returned; the manifest is an object with a workspaces
\* array, so nothing is thrown
ValidateManifest ==
    /\ ipc = "returned"
    /\ notice' = ManifestEmpty(manifest)
    /\ urlNotice' = (PagesWithoutUrl(manifest) # {})
    /\ ipc' = "validated"
    /\ UNCHANGED <<wk, outcomes, manifest, observers, pages, vResolve, vEnum, vWs, vCasc, vMat,
                   vDepth, vExp>>

\* The counting step of a pass is the one of SpecMat.
NextInv ==
    \/ StartInventory
    \/ DiscoverWorkspaces
    \/ Navigate
    \/ ExpandFirst
    \/ ExpandInPass
    \/ CountItems
    \/ MaterializeThrew
    \/ MaterializeReturned
    \/ CapturePages
    \/ WriteManifest
    \/ ValidateManifest

SpecInv == InitInv /\ [][NextInv]_vars

\* Every awaited driver call and timer completes or times out.
SpecInvFair == SpecInv /\ WF_vars(NextInv)

(***************************************************************************)
(* getItemDepth (inventory.js).  A JavaScript number is a record: NaN, or  *)
(* an integer value.                                                       *)
(***************************************************************************)
NaN == [nan |-> TRUE, val |-> 0]

Num(n) == [nan |-> FALSE, val |-> n]

IsDigit(c) == \E d \in 1..Len(Digits) : Digits[d] = c

DigitValue(c) == (CHOOSE d \in 1..Len(Digits) : Digits[d] = c) - 1

\* The value of the longest prefix of decimal digits of s, after acc
RECURSIVE DigitsPrefix(_, _)
DigitsPrefix(s, acc) ==
    IF s = <<>> \/ ~IsDigit(Head(s)) THEN acc
    ELSE DigitsPrefix(Tail(s), 10 * acc + DigitValue(Head(s)))

\* parseInt(s, 10): an optional sign, then the leading decimal digits; NaN
\* when there is none
ParseInt(s) ==
    LET neg == s # <<>> /\ Head(s) = "-"
        t   == IF neg THEN Tail(s) ELSE s
    IN  IF t = <<>> \/ ~IsDigit(Head(t)) THEN NaN
        ELSE Num(IF neg THEN 0 - DigitsPrefix(t, 0) ELSE DigitsPrefix(t, 0))

\* Math.max(0, x - 1): NaN stays NaN
LevelToDepth(x) ==
    IF x.nan THEN NaN ELSE Num(IF x.val - 1 > 0 THEN x.val - 1 ELSE 0)

\* parseInt(style.paddingLeft || '0', 10) || 0
ParsePx(s) ==
    LET x == ParseInt(Or(s, <<"0">>))
    IN  IF x.nan THEN 0 ELSE x.val

IndentUnit == 20

\* Math.max(0, Math.round(indent / 20)); Math.round rounds a half upwards
IndentDepth(indent) ==
    LET r == (2 * indent + IndentUnit) \div (2 * IndentUnit)
    IN  IF r > 0 THEN r ELSE 0

MaxOf(a, b) == IF a > b THEN a ELSE b

\* A mutant of InPageDepth: the group count is looked at before the level.
InPageDepthGroupsFirst(levelAttr, groups, pl, ml) ==
    IF groups > 0 THEN Num(groups)
    ELSE IF ~Falsy(levelAttr) /\ ~ParseInt(levelAttr).nan
         THEN LevelToDepth(ParseInt(levelAttr))
    ELSE Num(IndentDepth(MaxOf(ParsePx(pl), ParsePx(ml))))

\* The function evaluated in the page: the level of the closest tree item
\* when it is a number, else the count of role="group" ancestors when there
\* is one, else the indentation
InPageDepth(levelAttr, groups, pl, ml) ==
    IF ~Falsy(levelAttr) /\ ~ParseInt(levelAttr).nan
    THEN LevelToDepth(ParseInt(levelAttr))
    ELSE IF groups > 0 THEN Num(groups)
    ELSE Num(IndentDepth(MaxOf(ParsePx(pl), ParsePx(ml))))

\* getItemDepth(el): the element's own aria-level when the read gives a
\* non-empty string; else what the evaluation in the page computes, 0 when
\* the evaluation raises
getItemDepth(el) ==
    IF ~el.selfRaises /\ ~Falsy(el.self)
    THEN LevelToDepth(ParseInt(el.self))
    ELSE IF el.evalRaises THEN Num(0)
    ELSE InPageDepth(el.item, el.groups, el.pl, el.ml)

(***************************************************************************)
(* Specification SpecDepth: getItemDepth on every element of the bounded   *)
(* input space.                                                            *)
(***************************************************************************)
MaxGroups == 2

\* What getAttribute('aria-level') can give
LevelAttrs == {NULL, <<>>, <<"0">>, <<"1">>, <<"3">>, <<"x">>, <<"2", "x">>,
               <<"-", "1">>}

\* getComputedStyle(treeItem).paddingLeft
PaddingValues == {<<"0", "p", "x">>, <<"1", "0", "p", "x">>,
                  <<"2", "4", "p", "x">>}

\* getComputedStyle(treeItem).marginLeft
MarginValues == {<<>>, <<"0", "p", "x">>, <<"-", "8", "p", "x">>,
                 <<"3", "0", "p", "x">>}

Elements ==
    [selfRaises : BOOLEAN, self : LevelAttrs, evalRaises : BOOLEAN,
     item : LevelAttrs, groups : 0..MaxGroups,
     pl : PaddingValues, ml : MarginValues]

InitDepth ==
    /\ din \in Elements
    /\ dout = NULL
    /\ dpc = "input"
    /\ pages = <<>>
    /\ IdleResolve
    /\ IdleEnum
    /\ IdleWs
    /\ IdleCasc
    /\ IdleMat
    /\ IdleInv
    /\ IdleExp

GetItemDepth ==
    /\ dpc = "input"
    /\ dout' = getItemDepth(din)
    /\ dpc' = "returned"
    /\ UNCHANGED <<din, pages, vResolve, vEnum, vWs, vCasc, vMat, vInv, vExp>>

NextDepth == GetItemDepth

SpecDepth == InitDepth /\ [][NextDepth]_vars

(***************************************************************************)
(* toSlug (markdown.js).                                                   *)
(***************************************************************************)
\* \w, on the lower-cased alphabet of the model
WordChars == LowerAlnum \cup {"_"}

IsSpace(c) == c = " "

\* .replace(/[^\w\s-]/g, ''): every other character is removed
RECURSIVE StripSpecials(_)
StripSpecials(s) ==
    IF s = <<>> THEN <<>>
    ELSE IF Head(s) \in WordChars \/ IsSpace(Head(s)) \/ Head(s) = "-"
         THEN <<Head(s)>> \o StripSpecials(Tail(s))
    ELSE StripSpecials(Tail(s))

\* .replace(/\s+/g, '-'): every maximal run of whitespace becomes one dash
RECURSIVE SpaceRuns(_)
SpaceRuns(s) ==
    IF s = <<>> THEN <<>>
    ELSE IF ~IsSpace(Head(s)) THEN <<Head(s)>> \o SpaceRuns(Tail(s))
    ELSE IF Len(s) > 1 /\ IsSpace(s[2]) THEN SpaceRuns(Tail(s))
    ELSE <<"-">> \o SpaceRuns(Tail(s))

\* .replace(/-+/g, '-'): every maximal run of dashes becomes one dash
RECURSIVE CollapseDashes(_)
CollapseDashes(s) ==
    IF s = <<>> THEN <<>>
    ELSE IF Head(s) = "-" /\ Len(s) > 1 /\ s[2] = "-" THEN CollapseDashes(Tail(s))
    ELSE <<Head(s)>> \o CollapseDashes(Tail(s))

ToSlugMaxLen == 60

toSlug(title) ==
    Slice(TrimDashes(CollapseDashes(SpaceRuns(StripSpecials(
        ToLower(Or(title, Untitled)))))), ToSlugMaxLen)

(***************************************************************************)
(* runExport, exportPageList and exportSinglePage (exporter.js), for a     *)
(* manifest with one workspace.  A path is the sequence of its segments    *)
(* below the workspace directory.                                          *)
(***************************************************************************)
IndexMd == <<"i", "n", "d", "e", "x", ".", "m", "d">>

\* `${slug}.md`
LeafName(slug) == slug \o <<".", "m", "d">>

\* reason: 'No URL in manifest'
NoUrlReason == <<"N">>

\* String.prototype.includes
Includes(s, t) ==
    \E i \in 0..Len(s) : i + Len(t) <= Len(s) /\ SubSeq(s, i + 1, i + Len(t)) = t

matchFilter(title, filter) == Includes(ToLower(title), ToLower(filter))

\* const hasChildren = Array.isArray(pageEntry.childPages) &&
\*   pageEntry.childPages.length > 0
hasChildren(pageEntry) ==
    "childPages" \in DOMAIN pageEntry /\ Len(pageEntry.childPages) > 0

\* if (!pageEntry.url) { audit.failed.push({ title, reason: 'No URL in
\* manifest' }); console.warn('Skipped - no URL'); return; }
NoUrlOutcome(a, pageEntry) ==
    [a EXCEPT !.failed = Append(@, [title |-> pageEntry.title,
                                    reason |-> NoUrlReason])]

\* exportSinglePage: st is the files written and the audit so far; broken
\* are the urls on which the navigation or the extraction raises
exportSinglePage(pageEntry, dir, filename, broken, st) ==
    IF Falsy(pageEntry.url)
    THEN [st EXCEPT !.audit = NoUrlOutcome(@, pageEntry)]
    ELSE IF pageEntry.url \in broken
    THEN [st EXCEPT !.audit.failed =
              Append(@, [title |-> pageEntry.title, reason |-> DriverMessage]),
                    !.visited = @ \cup {pageEntry.url}]
    ELSE [st EXCEPT !.files = @ \cup {Append(dir, filename)},
                    !.audit.exported =
                        Append(@, [url |-> pageEntry.url,
                                   file |-> Append(dir, filename)]),
                    !.visited = @ \cup {pageEntry.url}]

\* exportPageList from entry number k on, and the body of its loop
RECURSIVE exportPageList(_, _, _, _, _, _)
RECURSIVE exportPageEntry(_, _, _, _, _)
exportPageEntry(pageEntry, dir, filter, broken, st) ==
    IF ~Falsy(filter) /\ ~matchFilter(pageEntry.title, filter)
    THEN [st EXCEPT !.audit.skipped = Append(@, [title |-> pageEntry.title])]
    ELSE LET slug == toSlug(pageEntry.title)
         IN  IF hasChildren(pageEntry)
             THEN LET subDir == Append(dir, slug)
                  IN  exportPageList(pageEntry.childPages, 1, subDir, filter, broken,
                          exportSinglePage(pageEntry, subDir, IndexMd, broken, st))
             ELSE exportSinglePage(pageEntry, dir, LeafName(slug), broken, st)

exportPageList(ps, k, dir, filter, broken, st) ==
    IF k > Len(ps) THEN st
    ELSE exportPageList(ps, k + 1, dir, filter, broken,
                        exportPageEntry(ps[k], dir, filter, broken, st))

(***************************************************************************)
(* Specification SpecExport: runExport on the manifests of one workspace   *)
(* with at most MaxExport top-level entries.                               *)
(***************************************************************************)
MaxExport == 2

ExportTitles == {<<"a">>, <<"b">>, <<"A", "!", " ", "b">>}

ExportUrls == {<<"u">>, <<"v">>}

PageShapes == [title : ExportTitles, url : ExportUrls \cup {NULL}, depth : 0..1]

\* The pages list as the inventory writes it: a flat list, each entry with
\* the ids of its children
InventoryPages(shapes) ==
    resolveParents([i \in 1..Len(shapes) |->
        NewPage(IdOf(i), shapes[i].title, shapes[i].url, shapes[i].depth)])

\* A manifest written by hand: an entry that carries its sub-page in
\* childPages
NestedPages(parent, child) ==
    LET c == [NewPage(IdOf(2), child.title, child.url, 1) EXCEPT
                 !.parentId = IdOf(1)]
    IN  <<("childPages" :> <<c>>) @@
          [NewPage(IdOf(1), parent.title, parent.url, 0) EXCEPT
              !.children = <<IdOf(2)>>]>>

ExportInputs ==
    {InventoryPages(shapes) :
        shapes \in UNION {[1..n -> PageShapes] : n \in 0..MaxExport}}
    \cup {NestedPages(p, c) : p, c \in PageShapes}

\* opts.pageFilter
PageFilters == {NULL, <<"a">>}

IdleAudit == [exported |-> <<>>, failed |-> <<>>, skipped |-> <<>>]

InitExport ==
    /\ xin \in ExportInputs
    /\ xfilter \in PageFilters
    /\ xbroken \in SUBSET ExportUrls
    /\ xidx = 0
    /\ xpc = "loop"
    /\ files = {}
    /\ visited = {}
    /\ audit = IdleAudit
    /\ pages = <<>>
    /\ IdleResolve
    /\ IdleEnum
    /\ IdleWs
    /\ IdleCasc
    /\ IdleMat
    /\ IdleInv
    /\ IdleDepth

\* One iteration of `for (const pageEntry of pages)` of the top-level call
\* of exportPageList, the export of the entry and of what it nests included
ExportEntry ==
    /\ xpc = "loop"
    /\ xidx < Len(xin)
    /\ LET st == exportPageEntry(xin[xidx + 1], <<>>, xfilter, xbroken,
                     [files |-> files, audit |-> audit, visited |-> visited])
       IN  /\ files' = st.files
           /\ audit' = st.audit
           /\ visited' = st.visited
    /\ xidx' = xidx + 1
    /\ UNCHANGED <<xin, xfilter, xbroken, xpc, pages, vResolve, vEnum, vWs,
                   vCasc, vMat, vInv, vDepth>>

\* After the loops: audit.totalExported, totalFailed and totalSkipped are
\* set and the report is written
WriteAudit ==
    /\ xpc = "loop"
    /\ xidx = Len(xin)
    /\ audit' = [totalExported |-> Len(audit.exported),
                 totalFailed |-> Len(audit.failed),
                 totalSkipped |-> Len(audit.skipped)] @@ audit
    /\ xpc' = "returned"
    /\ UNCHANGED <<xin, xfilter, xbroken, xidx, files, visited, pages, vResolve,
                   vEnum, vWs, vCasc, vMat, vInv, vDepth>>

NextExport ==
    \/ ExportEntry
    \/ WriteAudit

SpecExport == InitExport /\ [][NextExport]_vars

(***************************************************************************)
(* Properties of resolveParents.                                           *)
(***************************************************************************)
InSeq(x, s) == \E k \in 1..Len(s) : s[k] = x

DistinctIds(ps) == \A i, j \in 1..Len(ps) : ps[i].id = ps[j].id => i = j

DepthsOf(ps) == [i \in 1..Len(ps) |-> ps[i].depth]

ParentIdsOf(ps) == [i \in 1..Len(ps) |-> ps[i].parentId]

ChildrenOf(ps) == [i \in 1..Len(ps) |-> ps[i].children]

\* (a) every page with a parentId has that page in the list, at a smaller depth
ParentShallower(ps) ==
    \A n \in 1..Len(ps) :
        ps[n].parentId # NULL =>
            /\ \E p \in 1..Len(ps) : ps[p].id = ps[n].parentId
            /\ \A p \in 1..Len(ps) :
                   ps[p].id = ps[n].parentId => ps[p].depth < ps[n].depth

\* (b) n.id is in p.children iff n.parentId = p.id
ChildrenMirrorParent(ps) ==
    \A p, n \in 1..Len(ps) :
        InSeq(ps[n].id, ps[p].children) <=> (ps[n].parentId = ps[p].id)

\* C1: after resolveParents on pages with pairwise distinct ids and any
\* non-negative depths, every page with a parent has a strictly shallower
\* parent, and n.id is in p.children exactly when n.parentId = p.id.
C1_ForestInvariant ==
    (rpc = "resolved" /\ DistinctIds(rin)) =>
        /\ ParentShallower(pages)
        /\ ChildrenMirrorParent(pages)

\* A resolved list with a child and with two adjacent pages of equal depth > 0.
C1_Witness ==
    /\ rpc = "resolved"
    /\ DistinctIds(rin)
    /\ \E n \in 1..Len(pages) : pages[n].parentId # NULL
    /\ \E n \in 2..Len(pages) :
           pages[n].depth = pages[n - 1].depth /\ pages[n].depth > 0

ExampleDepths == <<0, 1, 1, 2, 0>>

ExampleIds == <<(<<"a">>), (<<"b">>), (<<"c">>), (<<"d">>), (<<"e">>)>>

IsExampleInput(ps) ==
    /\ Len(ps) = 5
    /\ DepthsOf(ps) = ExampleDepths
    /\ [i \in 1..5 |-> ps[i].id] = ExampleIds
    /\ \A i \in 1..5 : ps[i].parentId = NULL /\ ps[i].children = <<>>

\* C2: ids [a,b,c,d,e] with depths [0,1,1,2,0] resolve to parentIds
\* [null,a,a,c,null] and children a:[b,c], c:[d], b, d, e: [].
C2_Example ==
    (rpc = "resolved" /\ IsExampleInput(rin)) =>
        /\ ParentIdsOf(pages) = <<NULL, (<<"a">>), (<<"a">>), (<<"c">>), NULL>>
        /\ ChildrenOf(pages) =
               << <<(<<"b">>), (<<"c">>)>>, <<>>, <<(<<"d">>)>>, <<>>, <<>> >>

C2_Witness == rpc = "resolved" /\ IsExampleInput(rin)

\* The id of the latest page before position i with a strictly smaller depth,
\* NULL when there is none.
NearestShallower(ps, i) ==
    LET S == {j \in 1..(i - 1) : ps[j].depth < ps[i].depth}
    IN  IF S = {} THEN NULL
        ELSE ps[CHOOSE j \in S : \A k \in S : k <= j].id

\* C3: the parentId of the i-th page is the id of the latest preceding page of
\* strictly smaller depth, null when there is none; so a first page of depth
\* > 0 is a root and adjacent pages of equal depth share their parentId.
C3_NearestShallowerParent ==
    rpc = "resolved" =>
        /\ \A i \in 1..Len(pages) :
               pages[i].parentId = NearestShallower(rin, i)
        /\ Len(pages) > 0 => pages[1].parentId = NULL
        /\ \A i \in 2..Len(pages) :
               pages[i].depth = pages[i - 1].depth =>
                   pages[i].parentId = pages[i - 1].parentId

\* A first page of depth > 0, two adjacent siblings under a parent, and a page
\* whose parent is not the page right before it.
C3_Witness ==
    /\ rpc = "resolved"
    /\ Len(pages) >= 4
    /\ pages[1].depth > 0
    /\ \E i \in 2..Len(pages) :
           /\ pages[i].depth = pages[i - 1].depth
           /\ pages[i].parentId # NULL
    /\ \E i \in 3..Len(pages) :
           /\ pages[i].parentId # NULL
           /\ pages[i].parentId # pages[i - 1].id
           /\ pages[i].depth # pages[i - 1].depth

(***************************************************************************)
(* Properties of the outline returned by enumeratePages.                   *)
(***************************************************************************)
\* Following parentId from `id`, each id resolved to the first page that has
\* it (as pages.find does), ends at null without meeting an id of `seen`.
RECURSIVE ChainEnds(_, _, _)
ChainEnds(ps, id, seen) ==
    IF id = NULL THEN TRUE
    ELSE IF id \in seen \/ FindPage(ps, id) = 0 THEN FALSE
    ELSE ChainEnds(ps, ps[FindPage(ps, id)].parentId, seen \cup {id})

NoParentCycle(ps) ==
    \A n \in 1..Len(ps) : ChainEnds(ps, ps[n].parentId, {ps[n].id})

ChildrenPointBack(ps) ==
    \A p \in 1..Len(ps) : \A c \in 1..Len(ps[p].children) :
        LET k == FindPage(ps, ps[p].children[c])
        IN  k # 0 /\ ps[k].parentId = ps[p].id

\* C4: every outline returned by enumeratePages is a forest: following
\* parentId from any page reaches null without revisiting an id, and every id
\* in a page's children denotes a page whose parentId is the holder's id.
C4_OutlineIsForest ==
    ppc = "returned" => NoParentCycle(pages) /\ ChildrenPointBack(pages)

\* C5: no two workspace entries of a discovery result share an id, and no two
\* page entries of one outline share an id, on the DOM path and on the
\* network-capture path.
C5_IdsUnique ==
    /\ wpc = "returned" => DistinctIds(workspaces)
    /\ ppc = "returned" => DistinctIds(pages)

(***************************************************************************)
(* Properties of the selector cascade.                                     *)
(***************************************************************************)
\* The positions of `list` whose selector matches something in DOM d.
Productive(d, list) ==
    {i \in 1..Len(list) : ~d[list[i]].raises /\ d[list[i]].els # <<>>}

MinOf(S) == CHOOSE i \in S : \A j \in S : i <= j

\* C6: findAll returns exactly the match set of the lowest-index selector that
\* matches anything, the empty list only when no selector matches anything,
\* and never a merge of the match sets of several selectors.
C6_FindAllFirstProductive ==
    (ckind = "all" /\ ~domChanged) =>
        \A r \in 1..Len(cres) :
            LET res == cres[r]
                P   == Productive(dom, res.list)
            IN  /\ ~res.threw
                /\ IF P = {}
                   THEN res.value = <<>> /\ res.from = 0
                   ELSE /\ res.from = MinOf(P)
                        /\ res.value = dom[res.list[MinOf(P)]].els
                /\ res.value = <<>> => P = {}

\* findAll skipped a selector that matches nothing and returned the matches of
\* the second one although the third matches something else.
C6_Witness ==
    /\ ckind = "all"
    /\ ~domChanged
    /\ Len(cres) >= 1
    /\ cres[1].from = 2
    /\ dom[1] = Matches(<<>>)
    /\ dom[3].els # <<>>
    /\ dom[3].els # dom[2].els
    /\ cres[1].value = dom[2].els

\* C7: when selectors A and B both match in the scope, findFirst with [A, B]
\* returns the element findFirst with [A] returns, and findAll with [A, B]
\* returns the list findAll with [A] returns.
C7_CascadePriority ==
    ( /\ Len(cres) = 2
      /\ ~domChanged
      /\ Len(cres[1].list) >= 2
      /\ cres[2].list = <<1>>
      /\ {1, 2} \subseteq Productive(dom, cres[1].list) ) =>
        /\ ~cres[1].threw /\ ~cres[2].threw
        /\ cres[1].value = cres[2].value

\* Both calls were made on a scope where A and B match different elements.
C7_Witness ==
    /\ Len(cres) = 2
    /\ ~domChanged
    /\ cres[1].list = FullList
    /\ cres[2].list = <<1>>
    /\ {1, 2} \subseteq Productive(dom, FullList)
    /\ dom[1].els[1] # dom[2].els[1]
    /\ cres[1].from = 1

\* The lookup of the running resolution raises or times out in DOM d.
LookupFails(kind, d, list, i) ==
    \/ d[list[i]].raises
    \/ kind = "first" /\ d[list[i]].els = <<>>

\* C8: findFirst and findAll never throw; a lookup that raises or times out
\* moves the resolver to the next selector, and when no selector matches
\* findFirst returns null and findAll returns the empty list.
C8_NeverThrows ==
    /\ [](\A r \in 1..Len(cres) :
             /\ ~cres[r].threw
             /\ (~domChanged /\ Productive(dom, cres[r].list) = {}) =>
                    cres[r].value = IF ckind = "first" THEN "null" ELSE <<>>)
    /\ [][ ( /\ cpc = "loop"
             /\ cidx <= Len(clist)
             /\ LookupFails(ckind, dom, clist, cidx)
             /\ dom' = dom ) =>
               (cpc' = "loop" /\ cidx' = cidx + 1 /\ cres' = cres) ]_vars

\* The first call went past a raising selector to the second one; the second
\* call, on the raising selector alone, found nothing.
C8_Witness ==
    /\ Len(cres) = 2
    /\ ~domChanged
    /\ dom[1].raises
    /\ cres[1].from = 2
    /\ cres[2].list = <<1>>
    /\ cres[2].from = 0

C10_MaterializeTerminates ==
    /\ [](pass <= 12 /\ iterations <= 20)
    /\ <>(mpc \in {"returned", "threw"})

\* The pass budget is used up by counts that never settle, after an
\* expandAllNodes call that used all its iterations.
C10_Witness ==
    /\ mpc = "count"
    /\ pass = 12
    /\ iterations = 20
    /\ lastCount = 0

\* C11: fullyMaterializePageTree returns before its 12th pass only at a pass
\* whose count is greater than zero and equal to the count of the pass
\* before; a count of zero is never taken as converged, so when no pass
\* counts an item all 12 passes run (the scroll is part of each).
C11_ConvergesOnPositiveStableCount ==
    /\ [][(mpc = "count" /\ mpc' = "returned" /\ pass < maxPasses) =>
              (pass >= 2 /\ count' > 0 /\ count' = count /\ count = lastCount)]_vars
    /\ []((mpc = "returned" /\ ~sawItems) => pass = maxPasses)

\* All 12 passes have run, each counting zero items.
C11_Witness ==
    /\ mpc = "returned"
    /\ ~sawItems
    /\ pass = maxPasses
    /\ lastCount = 0

\* C12: from one pass of fullyMaterializePageTree to the next, the count of
\* visible items never decreases.
C12_CountsNonDecreasing ==
    [][(mpc = "count" /\ pass >= 2) => count' >= count]_vars

(***************************************************************************)
(* Properties of runInventory.                                             *)
(***************************************************************************)
\* C13: when the 12th pass of fullyMaterializePageTree ends without
\* convergence the function returns, it does not raise, and enumeratePages
\* goes on to collect the page items that are visible then.
C13_ExhaustionReturnsNormally ==
    /\ [][(ipc = "materialize" /\ mpc = "count" /\ pass = maxPasses
              /\ ~Converged(count', lastCount)) => mpc' = "returned"]_vars
    /\ [][(ipc = "materialize" /\ mpc = "returned") =>
              (ipc' = "capture" /\ workspaces' = workspaces)]_vars
    /\ [][(ipc = "capture" /\ ipc' # "capture") =>
              (Len(outcomes') = wk /\ workspaces'[wk].pages = outcomes'[wk].pages)]_vars

\* The page items are being collected after 12 passes that counted no item.
C13_Witness ==
    /\ ipc = "capture"
    /\ mpc = "returned"
    /\ pass = maxPasses
    /\ ~sawItems

LoopStates == {"navigate", "expand", "materialize", "capture"}

\* C14: the workspaces are processed one at a time in the order of the list:
\* while the loop is at workspace k, every workspace before k has its pages
\* or its error and no later one has; and the page items are collected only
\* once fullyMaterializePageTree has returned, a materialization step never
\* running outside the materialization of the current workspace.
C14_SequentialProcessing ==
    /\ ipc \in LoopStates => (wk >= 1 /\ Len(outcomes) = wk - 1)
    /\ ipc = "capture" => mpc = "returned"
    /\ mpc \in {"expand", "count"} => ipc = "materialize"

\* The second workspace is having its page items collected, the first one
\* being done.
C14_Witness ==
    /\ ipc = "capture"
    /\ wk = 2
    /\ Len(outcomes) = 1
    /\ pass > 1

\* C15: a workspace whose navigation or page enumeration raised is in the
\* manifest with pages = [] and a non-empty error string; every other
\* workspace was processed, has the pages its own enumeration returned and
\* no error field.
C15_FailureIsContained ==
    ipc = "returned" =>
        /\ Len(outcomes) = Len(manifest.workspaces)
        /\ \A k \in 1..Len(manifest.workspaces) :
               IF outcomes[k].failed
               THEN /\ manifest.workspaces[k].pages = <<>>
                    /\ HasError(manifest.workspaces[k])
                    /\ manifest.workspaces[k].error # <<>>
               ELSE /\ manifest.workspaces[k].pages = outcomes[k].pages
                    /\ ~HasError(manifest.workspaces[k])

\* The first workspace failed and the second one has a page.
C15_Witness ==
    /\ ipc = "returned"
    /\ Len(manifest.workspaces) = 2
    /\ outcomes[1].failed
    /\ ~outcomes[2].failed
    /\ Len(manifest.workspaces[2].pages) > 0

\* C16: with no workspace discovered, runInventory does not raise and
\* returns a manifest with totalWorkspaces = 0, totalPages = 0 and an empty
\* list; the warning of the empty manifest is printed, and when the network
\* fallback ran and found nothing its own warning is printed too.
C16_EmptyInventory ==
    /\ (ipc \in LoopStates /\ Len(workspaces) = 0) => (wk = 1 /\ ipc = "navigate")
    /\ (ipc \in {"navigate", "returned", "validated"} /\ Len(workspaces) = 0 /\ reloaded)
           => warned
    /\ (ipc \in {"returned", "validated"} /\ Len(workspaces) = 0) =>
           manifest = [totalWorkspaces |-> 0, totalPages |-> 0, workspaces |-> <<>>]
    /\ (ipc = "validated" /\ Len(workspaces) = 0) => notice
    /\ ipc = "threw" => wk = 0

\* The gallery showed no card, the network gave nothing, the empty manifest
\* is returned and validated.
C16_Witness ==
    /\ ipc = "validated"
    /\ reloaded
    /\ warned
    /\ notice
    /\ manifest.workspaces = <<>>

\* C17: whatever the driver does, runInventory does not raise and in the
\* end writes and returns the manifest.
C17_AlwaysEmitsManifest ==
    /\ [](ipc # "threw")
    /\ <>(ipc \in {"returned", "validated"} /\ manifest # NULL)

RECURSIVE SumOutcomes(_)
\* the pages each enumeration returned, a failed workspace counting for none
SumOutcomes(k) ==
    IF k = 0 THEN 0
    ELSE SumOutcomes(k - 1) + (IF outcomes[k].failed THEN 0 ELSE Len(outcomes[k].pages))

\* C18: in the manifest returned, totalWorkspaces is the length of the
\* workspaces list, totalPages is the sum of the lengths of the workspaces'
\* pages lists (0 for a failed workspace), and the workspaces are in the
\* order of their discovery.
C18_ManifestTotals ==
    ipc = "returned" =>
        /\ manifest.totalWorkspaces = Len(manifest.workspaces)
        /\ manifest.totalPages = SumOutcomes(Len(outcomes))
        /\ \A k \in 1..Len(manifest.workspaces) :
               /\ manifest.workspaces[k].title = IdOf(k)
               /\ Len(manifest.workspaces[k].pages) =
                      (IF outcomes[k].failed THEN 0 ELSE Len(outcomes[k].pages))

\* Two workspaces with pages each, the first with more than the second.
C18_Witness ==
    /\ ipc = "returned"
    /\ Len(manifest.workspaces) = 2
    /\ Len(manifest.workspaces[1].pages) = 2
    /\ Len(manifest.workspaces[2].pages) = 1
    /\ manifest.totalPages = 3

(***************************************************************************)
(* Properties of enumerateWorkspaces.                                      *)
(***************************************************************************)
\* C19: in the list enumerateWorkspaces returns, every entry has a
\* non-empty title and no two entries have the same title.
C19_TitlesDistinct ==
    wpc = "returned" =>
        /\ \A k \in 1..Len(workspaces) : ~Falsy(workspaces[k].title)
        /\ \A j, k \in 1..Len(workspaces) :
               workspaces[j].title = workspaces[k].title => j = k

\* the entries the gallery cards gave (none when the gallery showed no card)
PrimaryEntries == IF wItems > 0 THEN Len(workspaces) ELSE 0

\* C20: the network fallback (response observer and reload) has run if and
\* only if the gallery cards produced no workspace entry.
C20_FallbackIffPrimaryEmpty ==
    wpc = "returned" => (reloaded <=> PrimaryEntries = 0)

\* C21: every entry of the list enumerateWorkspaces returns has a non-empty
\* id and a non-empty title, from the gallery cards and from the network.
C21_IdAndTitleNonEmpty ==
    wpc = "returned" =>
        \A k \in 1..Len(workspaces) :
            ~Falsy(workspaces[k].id) /\ ~Falsy(workspaces[k].title)

(***************************************************************************)
(* More properties of resolveParents.                                      *)
(***************************************************************************)
\* C24: resolveParents changes parentId and children only: the list keeps
\* its length and order, and each page its id, title, url and depth.
C24_ResolveFrame ==
    rpc = "resolved" =>
        /\ Len(pages) = Len(rin)
        /\ \A i \in 1..Len(rin) :
               /\ pages[i].id = rin[i].id
               /\ pages[i].title = rin[i].title
               /\ pages[i].url = rin[i].url
               /\ pages[i].depth = rin[i].depth

\* A resolved list whose first page has a depth > 0 and in which a page got
\* a parent at a depth more than one below its own.
C24_Witness ==
    /\ rpc = "resolved"
    /\ Len(pages) >= 2
    /\ pages[1].depth > 0
    /\ \E i, j \in 2..Len(pages) :
           /\ pages[i].parentId = pages[j].id
           /\ pages[i].depth > pages[j].depth + 1

\* the ids of the pages whose parentId is id, in the order of the list
RECURSIVE ChildIdsUpTo(_, _, _)
ChildIdsUpTo(ps, id, n) ==
    IF n = 0 THEN <<>>
    ELSE IF ps[n].parentId = id
         THEN Append(ChildIdsUpTo(ps, id, n - 1), ps[n].id)
         ELSE ChildIdsUpTo(ps, id, n - 1)

\* C30: after resolveParents on pages with pairwise distinct ids, the
\* children of each page are the ids of its children in the order of the
\* list, without a repeated id and without the page's own id, and no id is in
\* the children of two pages.
C30_ChildrenInDocumentOrder ==
    (rpc = "resolved" /\ DistinctIds(rin)) =>
        /\ \A p \in 1..Len(pages) :
               /\ pages[p].children = ChildIdsUpTo(pages, pages[p].id, Len(pages))
               /\ \A a, b \in 1..Len(pages[p].children) :
                      pages[p].children[a] = pages[p].children[b] => a = b
               /\ ~InSeq(pages[p].id, pages[p].children)
        /\ \A p, q \in 1..Len(pages) :
               (p # q) =>
                   ~\E c \in 1..Len(pages[p].children) :
                       InSeq(pages[p].children[c], pages[q].children)

\* Two pages with children, one of them with two children that are not
\* adjacent in the list.
C30_Witness ==
    /\ rpc = "resolved"
    /\ DistinctIds(rin)
    /\ \E p, q \in 1..Len(pages) :
           /\ p # q
           /\ Len(pages[p].children) >= 2
           /\ Len(pages[q].children) >= 1
           /\ pages[q].parentId = pages[p].id

(***************************************************************************)
(* Properties of getItemDepth.                                             *)
(***************************************************************************)
\* C22: getItemDepth returns a non-negative integer whatever the element
\* gives: an attribute read or an evaluation that raises, or a level
\* attribute that is present but not a number, gives depth 0.
C22_DepthIsNatural ==
    dpc = "returned" =>
        /\ ~dout.nan
        /\ dout.val \in Nat
        /\ (~din.selfRaises /\ din.self \in {<<"x">>}) => dout.val = 0

\* The level a level attribute states, for the attributes that are numbers
C23_Level(a) ==
    CASE a = <<"0">> -> 0
      [] a = <<"1">> -> 1
      [] a = <<"3">> -> 3
      [] a = <<"-", "1">> -> -1

C23_HasLevel(a) == a \in {<<"0">>, <<"1">>, <<"3">>, <<"-", "1">>}

C23_NoLevel(a) == a \in {NULL, <<>>, <<"x">>}

C23_Pixels(s) ==
    CASE s = <<"1", "0", "p", "x">> -> 10
      [] s = <<"2", "4", "p", "x">> -> 24
      [] s = <<"3", "0", "p", "x">> -> 30
      [] s = <<"-", "8", "p", "x">> -> -8
      [] OTHER -> 0

C23_LevelDepth(a) == IF C23_Level(a) > 1 THEN C23_Level(a) - 1 ELSE 0

\* No level read from the element itself: the read raised or gave nothing
C23_SelfSilent ==
    din.selfRaises \/ din.self \in {NULL, <<>>}

\* C23: the depth comes from the first signal available: (1) the element's
\* own level L gives max(0, L-1); (2) else the level of the nearest tree
\* item; (3) else the number g > 0 of enclosing groups gives g; (4) else the
\* larger of left padding and left margin, divided by 20 and rounded to the
\* nearest integer, never below 0.
C23_DepthPriority ==
    dpc = "returned" =>
        /\ (~din.selfRaises /\ C23_HasLevel(din.self)) =>
               dout = Num(C23_LevelDepth(din.self))
        /\ (C23_SelfSilent /\ ~din.evalRaises /\ C23_HasLevel(din.item)) =>
               dout = Num(C23_LevelDepth(din.item))
        /\ (C23_SelfSilent /\ ~din.evalRaises /\ C23_NoLevel(din.item)
              /\ din.groups > 0) =>
               dout = Num(din.groups)
        /\ (C23_SelfSilent /\ ~din.evalRaises /\ C23_NoLevel(din.item)
              /\ din.groups = 0) =>
               LET m == MaxOf(C23_Pixels(din.pl), C23_Pixels(din.ml))
               IN  /\ ~dout.nan
                   /\ dout.val >= 0
                   /\ \/ 20 * dout.val - 10 <= m /\ m < 20 * dout.val + 10
                      \/ dout.val = 0 /\ m < 10

\* The tree item has a level and sits inside a group, and the element itself
\* states no level
C23_Witness ==
    /\ dpc = "returned"
    /\ C23_SelfSilent
    /\ ~din.evalRaises
    /\ din.item = <<"3">>
    /\ din.groups = 1
    /\ dout = Num(2)

(***************************************************************************)
(* Properties of validateManifest.                                         *)
(***************************************************************************)
PagesWithUrl(m) ==
    UNION {{<<k, j>> : j \in {i \in 1..Len(m.workspaces[k].pages) :
                                 ~Falsy(m.workspaces[k].pages[i].url)}} :
           k \in 1..Len(m.workspaces)}

\* C25: validateManifest prints a warning when the manifest has zero
\* workspaces, and also when no page with a url was found, the case of
\* workspaces without any page included.
C25_WarnsWithoutUrlPages ==
    ipc = "validated" =>
        /\ Len(manifest.workspaces) = 0 => notice
        /\ PagesWithUrl(manifest) = {} => (notice \/ urlNotice)

(***************************************************************************)
(* Properties of the response observers.                                   *)
(***************************************************************************)
\* C26: the response observer a fallback installs is no longer active once
\* the fallback has returned; at most one such observer is registered on
\* the page at any moment.
C26_AtMostOneObserver ==
    /\ observers <= 1
    /\ ipc \in {"returned", "validated"} => observers = 0

(***************************************************************************)
(* Properties of the export.                                               *)
(***************************************************************************)
\* The entries of the manifest that are sub-pages of entry p
C27_SubPages(p) == {i \in 1..Len(xin) : xin[i].parentId = xin[p].id}

\* C27: the export writes every page with a non-empty children list as a
\* folder <slug>/index.md with its sub-pages inside that folder, and every
\* page without sub-pages as <slug>.md (here for the top-level pages of an
\* export without filter where every page has a url and no export fails).
C27_FoldersForParents ==
    (/\ xpc = "returned"
     /\ xfilter = NULL
     /\ \A i \in 1..Len(xin) : ~Falsy(xin[i].url) /\ xin[i].url \notin xbroken) =>
        \A p \in 1..Len(xin) :
            xin[p].parentId = NULL =>
                LET slug == toSlug(xin[p].title)
                IN  IF xin[p].children # <<>>
                    THEN /\ <<slug, IndexMd>> \in files
                         /\ \A c \in C27_SubPages(p) :
                                \E f \in files :
                                    /\ Len(f) >= 2
                                    /\ f[1] = slug
                                    /\ f[2] \in {toSlug(xin[c].title),
                                                  LeafName(toSlug(xin[c].title))}
                    ELSE <<LeafName(slug)>> \in files

\* C28: a manifest page without a url is skipped by the export: it is never
\* navigated to, no file is written for it, and it is recorded in the
\* skipped list of the audit, not in the failed list, so that totalFailed
\* stays 0 when nothing else fails.
C28_NoUrlIsSkipped ==
    xpc = "returned" =>
        /\ NULL \notin visited
        /\ \A i \in 1..Len(xin) :
               Falsy(xin[i].url) =>
                   \E k \in 1..Len(audit.skipped) :
                       audit.skipped[k].title = xin[i].title
        /\ (\A i \in 1..Len(xin) : xin[i].url \notin xbroken) =>
               audit.totalFailed = 0

(***************************************************************************)
(* Properties of the capture loop of enumeratePages.                       *)
(***************************************************************************)
\* An item that did not fail and has a label other than the workspace's
C29_Kept(e) == ~e.failed /\ ~Falsy(e.title) /\ e.title # WsTitle

\* C29: in the capture loop of enumeratePages a failure on one item costs
\* that item only: every item is visited, and the list returned holds, in
\* document order, exactly the items that did not fail and have a
\* non-empty title different from the workspace title.
C29_FailureIsLocal ==
    (ppc = "returned" /\ nItems > 0) =>
        /\ Len(expected) = nItems
        /\ LET kept == SelectSeq(expected, C29_Kept)
           IN  /\ Len(pages) = Len(kept)
               /\ \A k \in 1..Len(kept) :
                      /\ pages[k].id = kept[k].page.id
                      /\ pages[k].title = kept[k].page.title
                      /\ pages[k].url = kept[k].page.url
                      /\ pages[k].depth = kept[k].page.depth

\* The second of three items failed; the first and the third are returned
C29_Witness ==
    /\ ppc = "returned"
    /\ nItems = 3
    /\ expected[2].failed
    /\ C29_Kept(expected[1])
    /\ C29_Kept(expected[3])
    /\ Len(pages) = 2
    /\ pages[1].id # pages[2].id

====
